---- MODULE Spec2Model ----
(***************************************************************************)
(* DeltaBot: the per-user dialog dispatcher (BotInstance.handle), the      *)
(* session manager (DeltaBot.__get_bot_instance) and the caller that feeds *)
(* them (DeltaBot.on_message), modelled from src/deltabot.py.              *)
(*                                                                         *)
(* Every on_message call is a task of the event loop.  A task is atomic    *)
(* between two awaits that really suspend; the steps below are those       *)
(* atomic blocks.  __get_bot_instance is the one place guarded by a        *)
(* threading.Lock and is modelled statement by statement.                  *)
(*                                                                         *)
(* Python strings that the code inspects (intent names: lower(),           *)
(* startswith(), ==, dict keys) are sequences of one-character strings.    *)
(* Dialog ids are only compared for equality and are plain strings.        *)
(* Scores and the threshold are in tenths (0.5 is 5).                      *)
(*                                                                         *)
(* Three specifications share the variables: Spec (concurrent tasks),      *)
(* SpecSeq (one message at a time, the full classifier vocabulary) and     *)
(* SpecSys (handle_system of src/system_commands.py, statement by          *)
(* statement; in Spec and SpecSeq a system command is a single step).      *)
(***************************************************************************)
EXTENDS Integers, Sequences, FiniteSets, TLC

\* ------------------------------------------------------------------ bounds

\* Number of on_message tasks that can be in flight at the same time.
MaxMsgs == 2
\* Number of distinct user ids.
MaxUsers == 2
\* Number of lower-ranked intents the classifier may append after the first.
MaxLowerRanked == 1
\* Number of distinct channel ids.
MaxChannels == 2

Msgs == 1..MaxMsgs
Users == 1..MaxUsers

\* ------------------------------------------------------------ python values

None == "<None>"

UpperChars == <<"A","B","C","D","E","F","G","H","I","J","K","L","M",
                "N","O","P","Q","R","S","T","U","V","W","X","Y","Z">>
LowerChars == <<"a","b","c","d","e","f","g","h","i","j","k","l","m",
                "n","o","p","q","r","s","t","u","v","w","x","y","z">>

\* str.lower(), character by character.
lower_char(c) ==
    IF \E i \in DOMAIN UpperChars : UpperChars[i] = c
    THEN LowerChars[CHOOSE i \in DOMAIN UpperChars : UpperChars[i] = c]
    ELSE c

lower(s) == [i \in DOMAIN s |-> lower_char(s[i])]

\* str.startswith(prefix)
startswith(s, prefix) ==
    /\ Len(s) >= Len(prefix)
    /\ SubSeq(s, 1, Len(prefix)) = prefix

\* dict.get(key): the value, or None when the key is absent.
dict_get(d, key) == IF key \in DOMAIN d THEN d[key] ELSE None

\* The string literals of the source.
str_None == <<"N","o","n","e">>
str_QnA == <<"Q","n","A">>
str_Clock == <<"C","l","o","c","k">>
str_News == <<"N","e","w","s">>
str_Cleanup == <<"C","l","e","a","n","u","p">>
str_Answer == <<"A","n","s","w","e","r">>
str_Choose == <<"C","h","o","o","s","e">>
str_QnA_Tasks == <<"Q","n","A","-","T","a","s","k","s">>

\* ---------------------------------------------------------- dialog registry

\* The ID class attributes of the dialog classes.
NotUnderstanding_ID == "NotUnderstanding"
QnA_ID == "QnA"
Clock_ID == "Clock"
News_ID == "News"
Cleanup_ID == "Cleanup"
QnAAnswer_ID == "QnAAnswer"
Choose_ID == "Choose"

\* BotInstance._dialogs as _load_dialogs builds it; a dialog is represented
\* by its dialog_id.
dialogs ==
    << NotUnderstanding_ID, QnA_ID, Clock_ID, News_ID,
       Cleanup_ID, QnAAnswer_ID, Choose_ID >>

DialogIds == { dialogs[i] : i \in DOMAIN dialogs }

\* BotInstance._intent_to_dialog as _load_dialogs builds it: the keys are
\* lower-cased when the table is built.
intent_to_dialog ==
    (lower(str_None) :> NotUnderstanding_ID) @@
    (lower(str_QnA) :> QnA_ID) @@
    (lower(str_Clock) :> Clock_ID) @@
    (lower(str_News) :> News_ID) @@
    (lower(str_Cleanup) :> Cleanup_ID) @@
    (lower(str_Answer) :> QnAAnswer_ID) @@
    (lower(str_Choose) :> Choose_ID)

\* BotInstance.__lookup_dialog, with a default: the bug of handing back the
\* first dialog instead of None.
lookup_dialog_defaulting(dialog_id) ==
    IF \E i \in DOMAIN dialogs : dialogs[i] = dialog_id
    THEN dialogs[CHOOSE i \in DOMAIN dialogs :
                    /\ dialogs[i] = dialog_id
                    /\ \A j \in 1..(i - 1) : dialogs[j] # dialog_id]
    ELSE dialogs[1]

\* BotInstance.__lookup_dialog: the first dialog with that dialog_id, or None.
lookup_dialog(dialog_id) ==
    IF \E i \in DOMAIN dialogs : dialogs[i] = dialog_id
    THEN dialogs[CHOOSE i \in DOMAIN dialogs :
                    /\ dialogs[i] = dialog_id
                    /\ \A j \in 1..(i - 1) : dialogs[j] # dialog_id]
    ELSE None

\* ----------------------------------------------------------- configuration

\* config.nlu_threshold, in tenths.
nlu_threshold == 5

\* ---------------------------------------------------------------- classifier

\* Intent names the classifier may return: two table keys as the table
\* spells them, the same keys capitalised, the reserved tasks intent and its
\* lower-case spelling, an intent of the QnA namespace, and an intent nobody
\* registered.
str_QnA_Faq == <<"Q","n","A","-","F","a","q">>
str_Weather == <<"W","e","a","t","h","e","r">>

IntentNames ==
    { lower(str_Clock), str_Clock, lower(str_QnA), str_QnA,
      str_QnA_Tasks, lower(str_QnA_Tasks), str_QnA_Faq, str_Weather }

\* Scores below, at and above the threshold (tenths).
Scores == { 3, 5, 9 }

\* cognitive.IntentResult
IntentResults == [name : IntentNames, score : Scores]

\* What may follow the first intent: lower-ranked intents that would win
\* every rule if they were consulted.
LowerRanked == { [name |-> lower(str_Clock), score |-> 9] }

RECURSIVE SeqsUpTo(_, _)
SeqsUpTo(S, n) ==
    IF n = 0 THEN { <<>> }
    ELSE LET shorter == SeqsUpTo(S, n - 1)
         IN  shorter \cup { Append(q, x) : q \in shorter, x \in S }

\* The first component of NLU.recognize's result: None, or a list of
\* IntentResult.  A Python value that is None or a list is a record with
\* the flag is_none and the list items.
NoneIntents == [is_none |-> TRUE, items |-> <<>>]
ListIntents(items) == [is_none |-> FALSE, items |-> items]

IntentLists ==
    { NoneIntents, ListIntents(<<>>) } \cup
    { ListIntents(<<first>> \o rest) :
        first \in IntentResults, rest \in SeqsUpTo(LowerRanked, MaxLowerRanked) }

\* The classifier of the concurrent specification answers from a short list:
\* an intent with a dialog, the tasks intent, an intent nobody registered.
FewIntentLists ==
    { ListIntents(<< [name |-> lower(str_Clock), score |-> 9] >>),
      ListIntents(<< [name |-> str_QnA_Tasks, score |-> 9] >>),
      ListIntents(<< [name |-> str_Weather, score |-> 9] >>) }

\* dialog_management.DialogResult
DONE == "DONE"
WAIT_FOR_INPUT == "WAIT_FOR_INPUT"
DialogResults == { DONE, WAIT_FOR_INPUT }

\* ------------------------------------------------------------------ routing

\* handle, line 90 with < for <=: the bug of letting a score equal to the
\* threshold through.
score_too_low_strict(score) == score < nlu_threshold

\* handle, line 90: score <= self._bot.config.nlu_threshold
score_too_low(score) == score <= nlu_threshold

\* handle, line 92 dropped: the tasks intent is not special.
is_tasks_intent_never(intent) == FALSE

\* handle, line 92: intent == "QnA-Tasks"
is_tasks_intent(intent) == intent = str_QnA_Tasks

\* handle, line 96 as a comparison with the whole name: the bug of taking
\* only the intent "QnA" for the QnA namespace.
is_qna_intent_exact(intent) == intent = str_QnA

\* handle, line 96: intent.startswith("QnA")
is_qna_intent(intent) == startswith(intent, str_QnA)

\* handle, line 82 reading stack[0] instead: the bug of resuming the pending
\* dialog without taking it off the stack.
pop_rest_peeking(stack) == stack

\* handle, line 82: what stack.pop(0) leaves in the pending stack.
pop_rest(stack) == Tail(stack)

\* handle, lines 81-102: from the pending stack and the classifier's intents
\* to what the turn does next.  kind is "help" (line 94), "notfound"
\* (line 101) or "proceed" (line 104); dialog is what __lookup_dialog found;
\* stack is the pending stack as lines 81-82 leave it.
Route(stack, intents) ==
    LET branch ==
            IF Len(stack) # 0
            THEN [help |-> FALSE, dialog |-> Head(stack),
                  stack |-> pop_rest(stack)]
            ELSE IF intents.is_none \/ Len(intents.items) = 0
            THEN [help |-> FALSE, dialog |-> NotUnderstanding_ID, stack |-> stack]
            ELSE LET intent == intents.items[1].name
                     score == intents.items[1].score
                     dialog == dict_get(intent_to_dialog, intent)
                 IN  IF score_too_low(score)
                     THEN [help |-> FALSE, dialog |-> NotUnderstanding_ID,
                           stack |-> stack]
                     ELSE IF is_tasks_intent(intent)
                     THEN [help |-> TRUE, dialog |-> dialog, stack |-> stack]
                     ELSE IF is_qna_intent(intent)
                     THEN [help |-> FALSE, dialog |-> QnA_ID, stack |-> stack]
                     ELSE [help |-> FALSE, dialog |-> dialog, stack |-> stack]
        found == lookup_dialog(branch.dialog)
    IN  IF branch.help
        THEN [kind |-> "help", dialog |-> None, stack |-> branch.stack]
        ELSE IF found = None
        THEN [kind |-> "notfound", dialog |-> None, stack |-> branch.stack]
        ELSE [kind |-> "proceed", dialog |-> found, stack |-> branch.stack]

\* ---------------------------------------------------------- system commands

\* system_commands.py, line 10
SYSTEM_COMMAND_SYMBOL == <<"\\">>

\* The command names of handle_system, lines 71-118.
str_respond_all == <<"r","e","s","p","o","n","d","-","a","l","l">>
str_listen == <<"l","i","s","t","e","n">>
str_keep == <<"k","e","e","p">>
str_admin == <<"a","d","m","i","n">>
str_echo == <<"e","c","h","o">>
str_state == <<"s","t","a","t","e">>
str_empty == <<>>

\* The text that is no command name.
str_foo == <<"f","o","o">>

Channels == 1..MaxChannels

\* The part of the configuration that system commands change: is_respond_all,
\* is_keep_messages, get_channels and get_admins of self.config.
Configs ==
    [ respond_all : BOOLEAN, keep_messages : BOOLEAN,
      channels : SUBSET Channels, admins : SUBSET Users ]

\* The message contents tried: with and without the command symbol, every
\* command name, no name and an unknown name, with and without an argument.
Contents ==
    { prefix \o name \o argument :
        prefix \in { <<>>, SYSTEM_COMMAND_SYMBOL },
        name \in { str_respond_all, str_listen, str_keep, str_admin,
                   str_echo, str_state, str_empty, str_foo },
        argument \in { <<>>, <<" ","x">> } }

\* A handling function of handle_system: the text it sends and the method
\* of self.config it calls, if any.
Handler(says, effect) == [says |-> says, effect |-> effect]

not_authorized == Handler("Du bist nicht authorisiert!", "")
unknown_command == Handler("Unbekannter Befehl", "")

\* handle_system, lines 71-123: the commands in the order in which they are
\* tried, each with its func_dm, func_not_admin and func (texts abridged,
\* umlauts written out).
system_commands ==
    << [cmd |-> str_respond_all,
        func_dm |-> Handler("Immer Antworten-Modus ist jetzt ...",
                            "toggle_respond_all"),
        func_not_admin |-> not_authorized,
        func |-> Handler("Immer Antworten-Modus ist jetzt ...",
                         "toggle_respond_all")],
       [cmd |-> str_listen,
        func_dm |-> Handler("Ich hoere Dich schon!", ""),
        func_not_admin |-> not_authorized,
        func |-> Handler("Bitte vom Admin folgende ID eintragen lassen: ...",
                         "add_channel")],
       [cmd |-> str_keep,
        func_dm |-> Handler("Nachrichten loeschen ist jetzt ...",
                            "toggle_keep_messages"),
        func_not_admin |-> not_authorized,
        func |-> Handler("Nachrichten loeschen ist jetzt ...",
                         "toggle_keep_messages")],
       [cmd |-> str_admin,
        func_dm |-> Handler("Das geht nicht im Privaten channel!", ""),
        func_not_admin |-> not_authorized,
        func |-> Handler("", "add_admins")],
       [cmd |-> str_echo,
        func_dm |-> Handler("<content>", ""),
        func_not_admin |-> not_authorized,
        func |-> Handler("<content>", "")],
       [cmd |-> str_state,
        func_dm |-> Handler("Aktueller Zustand: ...", ""),
        func_not_admin |-> not_authorized,
        func |-> Handler("Aktueller Zustand: ...", "")],
       [cmd |-> str_empty,
        func_dm |-> unknown_command,
        func_not_admin |-> unknown_command,
        func |-> unknown_command] >>

\* The methods of self.config that the handling functions call (lines 73,
\* 66, 89, 100), by what their names and the replies say they do: the
\* toggles flip their flag, add_channel adds the channel of the message,
\* add_admins adds the user the message mentions.
apply_effect(effect, cfg, channel, mentioned) ==
    CASE effect = "toggle_respond_all" ->
             [cfg EXCEPT !.respond_all = ~cfg.respond_all]
      [] effect = "toggle_keep_messages" ->
             [cfg EXCEPT !.keep_messages = ~cfg.keep_messages]
      [] effect = "add_channel" ->
             [cfg EXCEPT !.channels = cfg.channels \cup {channel}]
      [] effect = "add_admins" ->
             [cfg EXCEPT !.admins = cfg.admins \cup {mentioned}]
      [] OTHER -> cfg

\* self.config.is_admin(message.author), line 26
is_admin(cfg, author) == author \in cfg.admins

\* __handling_template with == in place of startswith at line 16: the bug of
\* taking a command only when nothing follows its name.
matches_exactly(content, cmd) == content = SYSTEM_COMMAND_SYMBOL \o cmd

\* __handling_template, lines 15-17: the message is for the command cmd.
matches(content, cmd) == startswith(content, SYSTEM_COMMAND_SYMBOL \o cmd)

\* __handling_template without lines 26-32: the bug of running func for
\* every author.
handling_function_unchecked(direct, admin) ==
    IF direct THEN "func_dm" ELSE "func"

\* __handling_template, lines 19-39: which of the three handling functions
\* is run.
handling_function(direct, admin) ==
    IF direct THEN "func_dm"
    ELSE IF ~admin THEN "func_not_admin"
    ELSE "func"

RECURSIVE first_command(_, _)
\* handle_system, lines 71-125: the index of the first command, from the
\* k-th on, whose __handling_template call returns True; 0 when every call
\* returns False.
first_command(content, k) ==
    IF k > Len(system_commands) THEN 0
    ELSE IF matches(content, system_commands[k].cmd) THEN k
    ELSE first_command(content, k + 1)

\* The handle_system call while no message is being handled.  Its fields:
\*   pc        "idle", "run" (at await run, lines 21-22, 28-29 and 35-36),
\*             "delete" (at await delete, lines 31 and 38) or "done"
\*   author, direct, channel, content, mentioned   the message
\*   ran       the handling functions run so far: command and which of three
\*   says      the text the handling function sends
\*   deleted   delete(message, self) has returned
\*   returned  what handle_system returned ("True", "False"), or None
\*   error     the exception that ended the call, or None
IdleCall ==
    [ pc |-> "idle", author |-> 1, direct |-> FALSE, channel |-> 1,
      content |-> <<>>, mentioned |-> 1, ran |-> <<>>, says |-> "",
      deleted |-> FALSE, returned |-> None, error |-> None ]

\* The configuration at the start of the specifications that handle no system
\* command in detail; their actions read none of its fields.
StartConfig ==
    [ respond_all |-> FALSE, keep_messages |-> FALSE,
      channels |-> {}, admins |-> {} ]

\* -------------------------------------------------------------------- state

VARIABLES
    user_to_instance,       \* DeltaBot._user_to_instance: user id -> instance
    user_to_instance_lock,  \* DeltaBot._user_to_instance_lock is held
    instances,              \* every BotInstance constructed so far
    is_debug,               \* config.is_debug()
    is_nlu_disabled,        \* config.is_nlu_disabled()
    msgs,                   \* the on_message tasks
    config,                 \* the configuration that system commands change
    sys                     \* the handle_system call in progress

vars == << user_to_instance, user_to_instance_lock, instances,
           is_debug, is_nlu_disabled, msgs, config, sys >>

\* The value of the local variable instance while it holds no BotInstance
\* (the None of dict.get at line 331); BotInstances are numbered from 1.
NoInstance == 0

\* What a message is to lines 195-208 of on_message: sent by a bot, taken by
\* handle_system, by handle_user, by _handle_unknown_command_symbols, or
\* plain text for the dialog system.
Kinds == { "bot", "system", "user", "unknown", "text" }

\* An on_message task: where it is (pc), the message it handles, its local
\* variables, and what the turn has done so far.
\*   active  what instance.has_active_dialog() returned at line 216
\*   before  the pending stack when handle was entered (line 77)
\*   seen    the pending stack as line 81 read it
\*   route   "" until the task has chosen; then what it chose
\*   dialog  the dialog whose proceed was invoked, or None
\*   result  what proceed returned, or None
\*   error   the exception that ended the task, or None
IdleTask ==
    [ pc |-> "idle", author |-> 1, kind |-> "text",
      direct |-> FALSE, listed |-> FALSE, mention |-> FALSE,
      instance |-> NoInstance, active |-> FALSE, intents |-> NoneIntents,
      before |-> <<>>, seen |-> <<>>,
      route |-> "", dialog |-> None, result |-> None, error |-> None ]

Init ==
    /\ user_to_instance = [u \in {} |-> NoInstance]
    /\ user_to_instance_lock = FALSE
    /\ instances = <<>>
    /\ is_debug \in BOOLEAN
    /\ is_nlu_disabled \in BOOLEAN
    /\ msgs = [m \in Msgs |-> IdleTask]
    /\ config = StartConfig
    /\ sys = IdleCall

\* __active_dialog_stack as an attribute of the class: the bug of one list
\* (here the list of the first instance) shared by every BotInstance.
stack_owner_shared(instance) == 1

\* BotInstance.__init__, line 35: self.__active_dialog_stack = [] gives
\* every instance a list of its own; the instance whose list an instance
\* reads and writes is itself.
stack_owner(instance) == instance

\* has_active_dialog with == in place of != at line 114: the bug of
\* reporting a dialog as pending exactly when none is.
has_active_dialog_inverted(instance) ==
    Len(instances[stack_owner(instance)].active_dialog_stack) = 0

\* BotInstance.has_active_dialog, line 114
has_active_dialog(instance) ==
    Len(instances[stack_owner(instance)].active_dialog_stack) # 0

\* The task without the fields of the message that lines 214-216 of
\* on_message are the last to read.
Forget(task) ==
    [task EXCEPT !.direct = FALSE, !.listed = FALSE, !.mention = FALSE,
                 !.active = FALSE]

Finish(task, route, error) ==
    [task EXCEPT !.pc = "done",
                 !.route = IF route = "" THEN task.route ELSE route,
                 !.error = error]

\* --------------------------------------------------------------- on_message

\* on_message, lines 195-208: a message arrives.  Messages of bots are
\* ignored; system commands, user commands and unknown command symbols are
\* taken by their handlers; plain text goes on to __get_bot_instance.
Receive(m) ==
    /\ msgs[m].pc = "idle"
    /\ \E author \in Users, kind \in Kinds, direct, listed, mention \in BOOLEAN :
         LET task == [IdleTask EXCEPT !.author = author, !.kind = kind,
                                      !.direct = direct, !.listed = listed,
                                      !.mention = mention]
         IN  msgs' = [msgs EXCEPT ![m] =
                        IF kind = "bot" THEN Finish(task, "ignored", None)
                        ELSE IF kind # "text" THEN Finish(task, "command", None)
                        ELSE [task EXCEPT !.pc = "acquire"]]
    /\ UNCHANGED << user_to_instance, user_to_instance_lock, instances,
                    is_debug, is_nlu_disabled, config, sys >>

\* Lock.acquire without the wait: the bug of a lock that excludes nobody.
lock_available_always == TRUE

\* Lock.acquire returns only while nobody holds the lock.
lock_available == ~user_to_instance_lock

\* __get_bot_instance, line 330: with self._user_to_instance_lock (enter)
Acquire(m) ==
    /\ msgs[m].pc = "acquire"
    /\ lock_available
    /\ user_to_instance_lock' = TRUE
    /\ msgs' = [msgs EXCEPT ![m].pc = "lookup"]
    /\ UNCHANGED << user_to_instance, instances, is_debug, is_nlu_disabled, config, sys >>

\* __get_bot_instance, lines 331-332: instance = self._user_to_instance.get(id)
Lookup(m) ==
    /\ msgs[m].pc = "lookup"
    /\ LET author == msgs[m].author
           instance == IF author \in DOMAIN user_to_instance
                       THEN user_to_instance[author] ELSE NoInstance
       IN  msgs' = [msgs EXCEPT ![m].instance = instance,
                                ![m].pc = IF instance = NoInstance
                                          THEN "create" ELSE "release"]
    /\ UNCHANGED << user_to_instance, user_to_instance_lock, instances,
                    is_debug, is_nlu_disabled, config, sys >>

\* __get_bot_instance, lines 333-334, with BotInstance.__init__: a new
\* instance with its dialogs loaded and an empty pending stack is stored
\* under the author's id.  owner records for whom it was constructed.
Create(m) ==
    /\ msgs[m].pc = "create"
    /\ LET author == msgs[m].author
           instance == Len(instances) + 1
       IN  /\ instances' = Append(instances,
                                  [owner |-> author, active_dialog_stack |-> <<>>])
           /\ user_to_instance' =
                [u \in DOMAIN user_to_instance \cup {author} |->
                    IF u = author THEN instance ELSE user_to_instance[u]]
           /\ msgs' = [msgs EXCEPT ![m].instance = instance, ![m].pc = "release"]
    /\ UNCHANGED << user_to_instance_lock, is_debug, is_nlu_disabled, config, sys >>

\* __get_bot_instance with acquire() in place of the with block of line 330
\* and no release(): the bug of returning with the lock still held.
lock_after_with_held == TRUE

\* __get_bot_instance, lines 330-335: leaving the with block releases the
\* lock before the instance is returned.
lock_after_with == FALSE

\* __get_bot_instance, line 335: the with block is left, the lock released.
Release(m) ==
    /\ msgs[m].pc = "release"
    /\ user_to_instance_lock' = lock_after_with
    /\ msgs' = [msgs EXCEPT ![m].pc = "gate"]
    /\ UNCHANGED << user_to_instance, instances, is_debug, is_nlu_disabled, config, sys >>

\* on_message, line 215 without its channel test: the bug of answering a
\* mention in a channel that is not configured.
handle_message_any_mention(task) ==
    \/ task.direct
    \/ task.mention
    \/ task.active /\ task.listed

\* on_message, lines 213-216: whether the dialog system gets the message.
handle_message(task) ==
    \/ task.direct
    \/ task.mention /\ task.listed
    \/ task.active /\ task.listed

\* on_message, lines 211-221: the message is dropped, or its deletion is
\* awaited.
Gate(m) ==
    /\ msgs[m].pc = "gate"
    /\ LET task == [msgs[m] EXCEPT
                        !.active = has_active_dialog(msgs[m].instance)]
       IN  msgs' = [msgs EXCEPT ![m] =
                      IF handle_message(task)
                      THEN [task EXCEPT !.pc = "delete"]
                      ELSE Finish(task, "dropped", None)]
    /\ UNCHANGED << user_to_instance, user_to_instance_lock, instances,
                    is_debug, is_nlu_disabled, config, sys >>

\* on_message, line 221: delete raises and ends the task.
DeleteFails(m) ==
    /\ msgs[m].pc = "delete"
    /\ msgs' = [msgs EXCEPT ![m] = Finish(Forget(msgs[m]), "", "delete")]
    /\ UNCHANGED << user_to_instance, user_to_instance_lock, instances,
                    is_debug, is_nlu_disabled, config, sys >>

\* on_message, lines 224-227: NLU is disabled, the notice is sent.
NluDisabled(m) ==
    /\ msgs[m].pc = "delete"
    /\ is_nlu_disabled
    /\ msgs' = [msgs EXCEPT ![m] =
                  [Forget(msgs[m]) EXCEPT !.pc = "notice", !.route = "notice"]]
    /\ UNCHANGED << user_to_instance, user_to_instance_lock, instances,
                    is_debug, is_nlu_disabled, config, sys >>

\* on_message, lines 225-227: the send of the notice ends, well or not.
NoticeSent(m) ==
    /\ msgs[m].pc = "notice"
    /\ \E error \in { None, "send" } :
         msgs' = [msgs EXCEPT ![m] = Finish(msgs[m], "", error)]
    /\ UNCHANGED << user_to_instance, user_to_instance_lock, instances,
                    is_debug, is_nlu_disabled, config, sys >>

\* ------------------------------------------------------ BotInstance.handle

\* handle, lines 81-104, run by task m in one piece (there is no await
\* between the read of the stack and the call at line 94, 101 or 104): the
\* stack is read and popped, the dialog chosen and looked up, and the task
\* stops at the await of send_help_message, of send, or of dialog.proceed.
Routed(m, task) ==
    LET stack == instances[stack_owner(task.instance)].active_dialog_stack
        r == Route(stack, task.intents)
    IN  /\ instances' =
              [instances EXCEPT
                  ![stack_owner(task.instance)].active_dialog_stack = r.stack]
        /\ msgs' = [msgs EXCEPT ![m] =
                      [task EXCEPT !.pc = r.kind, !.route = r.kind,
                                   !.seen = stack, !.dialog = r.dialog]]

\* handle, line 77: NLU.recognize raises and ends the task.
RecognizeFails(m) ==
    /\ msgs[m].pc = "delete"
    /\ ~is_nlu_disabled
    /\ LET stack == instances[stack_owner(msgs[m].instance)].active_dialog_stack
       IN  msgs' = [msgs EXCEPT ![m] =
                      Finish([Forget(msgs[m]) EXCEPT !.before = stack],
                             "handle", "recognize")]
    /\ UNCHANGED << user_to_instance, user_to_instance_lock, instances,
                    is_debug, is_nlu_disabled, config, sys >>

\* on_message, line 229, and handle, lines 77-79: the deletion is over, NLU
\* is enabled, the classifier answers intents.  _send_debug (lines 125-140)
\* returns at once when debug is off, and handle goes on to line 81; with
\* debug on it takes len(intents), a TypeError when intents is None, and
\* awaits send.
Recognized(m, intents) ==
    /\ msgs[m].pc = "delete"
    /\ ~is_nlu_disabled
    /\ LET stack == instances[stack_owner(msgs[m].instance)].active_dialog_stack
           task == [Forget(msgs[m]) EXCEPT !.before = stack,
                                           !.intents = intents,
                                           !.route = "handle"]
       IN  IF ~is_debug
           THEN Routed(m, task)
           ELSE /\ msgs' = [msgs EXCEPT ![m] =
                              IF intents.is_none
                              THEN Finish(task, "", "TypeError")
                              ELSE [task EXCEPT !.pc = "debug"]]
                /\ UNCHANGED instances
    /\ UNCHANGED << user_to_instance, user_to_instance_lock,
                    is_debug, is_nlu_disabled, config, sys >>

\* _send_debug, line 140: the debug text is sent; handle goes on to line 81.
DebugSent(m) ==
    /\ msgs[m].pc = "debug"
    /\ Routed(m, msgs[m])
    /\ UNCHANGED << user_to_instance, user_to_instance_lock,
                    is_debug, is_nlu_disabled, config, sys >>

\* _send_debug, line 140: send raises and ends the task.
DebugSendFails(m) ==
    /\ msgs[m].pc = "debug"
    /\ msgs' = [msgs EXCEPT ![m] = Finish(msgs[m], "", "send")]
    /\ UNCHANGED << user_to_instance, user_to_instance_lock, instances,
                    is_debug, is_nlu_disabled, config, sys >>

\* handle, lines 94-95: send_help_message ends, well or not; the turn is over.
HelpSent(m) ==
    /\ msgs[m].pc = "help"
    /\ \E error \in { None, "send" } :
         msgs' = [msgs EXCEPT ![m] = Finish(msgs[m], "", error)]
    /\ UNCHANGED << user_to_instance, user_to_instance_lock, instances,
                    is_debug, is_nlu_disabled, config, sys >>

\* handle, lines 101-102: the send of "Dialog nicht gefunden. Bitte an
\* Bot-Admin wenden!" ends, well or not; the turn is over.
NotFoundSent(m) ==
    /\ msgs[m].pc = "notfound"
    /\ \E error \in { None, "send" } :
         msgs' = [msgs EXCEPT ![m] = Finish(msgs[m], "", error)]
    /\ UNCHANGED << user_to_instance, user_to_instance_lock, instances,
                    is_debug, is_nlu_disabled, config, sys >>

\* handle, lines 105-106 without the condition: the bug of keeping every
\* dialog pending, whatever it returned.
keeps_dialog_always(result) == TRUE

\* handle, line 105: result == DialogResult.WAIT_FOR_INPUT
keeps_dialog(result) == result = WAIT_FOR_INPUT

\* handle, line 106 inserting dialog in place of dialog.dialog_id: the bug of
\* storing the dialog object, which is the id of no dialog.
pending_entry_object(dialog) == "<Dialog object>"

\* handle, line 106: the entry inserted for a dialog is dialog.dialog_id
\* (a dialog is modelled by its id).
pending_entry(dialog) == dialog

\* handle, lines 104-106: dialog.proceed returns; on WAIT_FOR_INPUT its
\* dialog_id is inserted at the front of the pending stack.
ProceedReturns(m) ==
    /\ msgs[m].pc = "proceed"
    /\ \E result \in DialogResults :
         LET task == msgs[m]
             stack == instances[stack_owner(task.instance)].active_dialog_stack
         IN  /\ instances' =
                   [instances EXCEPT
                     ![stack_owner(task.instance)].active_dialog_stack =
                       IF keeps_dialog(result)
                       THEN <<pending_entry(task.dialog)>> \o stack
                       ELSE stack]
             /\ msgs' = [msgs EXCEPT ![m] =
                           Finish([task EXCEPT !.result = result], "", None)]
    /\ UNCHANGED << user_to_instance, user_to_instance_lock,
                    is_debug, is_nlu_disabled, config, sys >>

\* handle, line 104: dialog.proceed raises; the exception leaves handle and
\* ends the task, lines 105-106 are not run.
ProceedRaises(m) ==
    /\ msgs[m].pc = "proceed"
    /\ msgs' = [msgs EXCEPT ![m] = Finish(msgs[m], "", "proceed")]
    /\ UNCHANGED << user_to_instance, user_to_instance_lock, instances,
                    is_debug, is_nlu_disabled, config, sys >>

\* The task is over; its slot is free for the next message.
Recycle(m) ==
    /\ msgs[m].pc = "done"
    /\ msgs' = [msgs EXCEPT ![m] = IdleTask]
    /\ UNCHANGED << user_to_instance, user_to_instance_lock, instances,
                    is_debug, is_nlu_disabled, config, sys >>

\* ------------------------------------------------------------ specification

Step(m) ==
    \/ Acquire(m) \/ Lookup(m) \/ Create(m) \/ Release(m) \/ Gate(m)
    \/ DeleteFails(m) \/ NluDisabled(m) \/ NoticeSent(m)
    \/ RecognizeFails(m) \/ DebugSent(m) \/ DebugSendFails(m)
    \/ HelpSent(m) \/ NotFoundSent(m)
    \/ ProceedReturns(m) \/ ProceedRaises(m)
    \/ Recycle(m)

\* Messages are handled by concurrent tasks, in any interleaving.
Next ==
    \E m \in Msgs :
        \/ Receive(m)
        \/ \E intents \in FewIntentLists : Recognized(m, intents)
        \/ Step(m)

Spec == Init /\ [][Next]_vars

\* Every other task is over and forgotten.
Alone(m) == \A k \in Msgs \ {m} : msgs[k].pc = "idle"

ReceiveAlone(m) == Alone(m) /\ Receive(m)

\* Messages are handled one at a time: a message arrives when the task of
\* the one before is over.  The classifier answers anything.
NextSeq ==
    \E m \in Msgs :
        \/ ReceiveAlone(m)
        \/ \E intents \in IntentLists : Recognized(m, intents)
        \/ Step(m)

SpecSeq == Init /\ [][NextSeq]_vars

\* ------------------------------------------------------------ handle_system

\* on_message, line 198, and handle_system up to its first await: the
\* commands are tried in order; for the first that matches, the handling
\* function that __handling_template chooses is called (which evaluates its
\* arguments, and with them the call of self.config) and its coroutine is
\* awaited; when no command matches, handle_system returns False.
HandleSystem ==
    /\ sys.pc = "idle"
    /\ \E author \in Users, direct \in BOOLEAN, channel \in Channels,
          content \in Contents, mentioned \in Users :
         LET call == [IdleCall EXCEPT !.author = author, !.direct = direct,
                                      !.channel = channel,
                                      !.content = content,
                                      !.mentioned = mentioned]
             k == first_command(content, 1)
         IN  IF k = 0
             THEN /\ sys' = [call EXCEPT !.pc = "done", !.returned = "False"]
                  /\ config' = config
             ELSE LET which == handling_function(direct,
                                                 is_admin(config, author))
                      handler == system_commands[k][which]
                  IN  /\ config' = apply_effect(handler.effect, config,
                                                channel, mentioned)
                      /\ sys' = [call EXCEPT
                                   !.pc = "run",
                                   !.ran = << [cmd |-> system_commands[k].cmd,
                                               which |-> which] >>,
                                   !.says = handler.says]
    /\ UNCHANGED << user_to_instance, user_to_instance_lock, instances,
                    is_debug, is_nlu_disabled, msgs >>

\* __handling_template, lines 21-24, 28-31 and 35-38: the handling function
\* is through; in a direct channel True is returned, elsewhere the deletion
\* of the message is awaited.
HandlerReturns ==
    /\ sys.pc = "run"
    /\ sys' = IF sys.direct
              THEN [sys EXCEPT !.pc = "done", !.returned = "True"]
              ELSE [sys EXCEPT !.pc = "delete"]
    /\ UNCHANGED << user_to_instance, user_to_instance_lock, instances,
                    is_debug, is_nlu_disabled, msgs, config >>

\* __handling_template, lines 22, 29 and 36: the handling function raises
\* (its send fails); the exception ends handle_system.
HandlerRaises ==
    /\ sys.pc = "run"
    /\ sys' = [sys EXCEPT !.pc = "done", !.error = "handler"]
    /\ UNCHANGED << user_to_instance, user_to_instance_lock, instances,
                    is_debug, is_nlu_disabled, msgs, config >>

\* __handling_template, lines 31-32 and 38-39: delete returns, True is
\* returned.
DeleteReturns ==
    /\ sys.pc = "delete"
    /\ sys' = [sys EXCEPT !.pc = "done", !.deleted = TRUE,
                          !.returned = "True"]
    /\ UNCHANGED << user_to_instance, user_to_instance_lock, instances,
                    is_debug, is_nlu_disabled, msgs, config >>

\* __handling_template, lines 31 and 38: delete raises and ends
\* handle_system.
DeleteRaises ==
    /\ sys.pc = "delete"
    /\ sys' = [sys EXCEPT !.pc = "done", !.error = "delete"]
    /\ UNCHANGED << user_to_instance, user_to_instance_lock, instances,
                    is_debug, is_nlu_disabled, msgs, config >>

\* The call is over; the next message can be handled.
NextCall ==
    /\ sys.pc = "done"
    /\ sys' = IdleCall
    /\ UNCHANGED << user_to_instance, user_to_instance_lock, instances,
                    is_debug, is_nlu_disabled, msgs, config >>

\* The state in which the system commands are examined: any configuration,
\* no dialog traffic (handle_system reads neither is_debug nor
\* is_nlu_disabled, nor any BotInstance).
InitSys ==
    /\ user_to_instance = [u \in {} |-> NoInstance]
    /\ user_to_instance_lock = FALSE
    /\ instances = <<>>
    /\ is_debug = FALSE
    /\ is_nlu_disabled = FALSE
    /\ msgs = [m \in Msgs |-> IdleTask]
    /\ config \in Configs
    /\ sys = IdleCall

NextSys ==
    \/ HandleSystem
    \/ HandlerReturns
    \/ HandlerRaises
    \/ DeleteReturns
    \/ DeleteRaises
    \/ NextCall

\* The system commands, one message at a time.
SpecSys == InitSys /\ [][NextSys]_vars

\* ------------------------------------------------------------------- claims

\* The pending stack of the session that task t works on.
StackOf(t) == instances[t.instance].active_dialog_stack

\* Task t has entered handle (line 77).
InHandle(t) == t.route \in { "handle", "help", "notfound", "proceed" }

\* Task t has run lines 81-102 of handle: it has read the pending stack and
\* has chosen what to do.
HasRouted(t) == t.route \in { "help", "notfound", "proceed" }

\* The classifier gave task t at least one intent; Top is the first.
HasIntents(t) == ~t.intents.is_none /\ Len(t.intents.items) > 0
Top(t) == t.intents.items[1]

\* Task t found the session IDLE at line 81 and its first intent scores
\* above the threshold.
IdleAndConfident(t) ==
    /\ HasRouted(t)
    /\ t.seen = <<>>
    /\ HasIntents(t)
    /\ Top(t).score > nlu_threshold

\* C1 (resume rule): a turn that finds the pending stack non-empty with front
\* entry d invokes d.proceed whatever the classifier returned, and when the
\* turn is over the session is IDLE iff d.proceed returned DONE and is
\* AWAITING(d) otherwise.
C1_ResumeRule ==
    \A m \in Msgs :
        LET t == msgs[m]
        IN  (t.pc = "done" /\ HasRouted(t) /\ t.seen # <<>>) =>
                /\ t.route = "proceed"
                /\ t.dialog = Head(t.seen)
                /\ (StackOf(t) = <<>>) <=> (t.result = DONE)
                /\ t.result # DONE =>
                       (StackOf(t) # <<>> /\ Head(StackOf(t)) = Head(t.seen))

\* C2 (case-insensitive intent names): for an IDLE session and a confident
\* top intent whose name, lower-cased, is a key of the intent-to-dialog
\* table (and is neither the tasks intent nor QnA-prefixed), the dialog
\* registered for the lower-cased name is invoked.
C2_CaseInsensitive ==
    \A m \in Msgs :
        LET t == msgs[m]
        IN  ( /\ IdleAndConfident(t)
              /\ lower(Top(t).name) \in DOMAIN intent_to_dialog
              /\ Top(t).name # str_QnA_Tasks
              /\ ~startswith(Top(t).name, str_QnA) ) =>
                /\ t.route = "proceed"
                /\ t.dialog = intent_to_dialog[lower(Top(t).name)]

\* C3 (error-path atomicity): a turn of handle that ends on an error path (a
\* registry miss, or an exception) leaves the pending stack as it was when
\* the turn began.
C3_ErrorAtomicity ==
    \A m \in Msgs :
        LET t == msgs[m]
        IN  ( /\ t.pc = "done"
              /\ InHandle(t)
              /\ (t.error # None \/ t.route = "notfound") ) =>
                StackOf(t) = t.before

\* C4 (no interleaving): two turns of the same user are never both between
\* the read of the pending stack (line 81) and the insert that follows
\* dialog.proceed (line 106).
C4_NoInterleaving ==
    \A a, b \in Msgs :
        ( /\ a # b
          /\ msgs[a].pc = "proceed"
          /\ msgs[b].pc = "proceed" ) =>
            msgs[a].author # msgs[b].author

\* C5 (one instance per user): at most one BotInstance is ever constructed
\* for a user id, every __get_bot_instance call for that id returns it, and
\* an entry of the user-to-instance map is never replaced or removed.
C5_OneInstancePerUser ==
    /\ \A i, j \in DOMAIN instances :
          instances[i].owner = instances[j].owner => i = j
    /\ \A u \in DOMAIN user_to_instance :
          /\ user_to_instance[u] \in DOMAIN instances
          /\ instances[user_to_instance[u]].owner = u
    /\ \A m \in Msgs :
          msgs[m].instance # NoInstance =>
              /\ msgs[m].author \in DOMAIN user_to_instance
              /\ msgs[m].instance = user_to_instance[msgs[m].author]

C5_EntryKept ==
    \A u \in DOMAIN user_to_instance :
        /\ u \in DOMAIN user_to_instance'
        /\ user_to_instance'[u] = user_to_instance[u]

C5_Uniqueness == []C5_OneInstancePerUser /\ [][C5_EntryKept]_vars

\* C5 witness: two tasks of one user hold the same instance while another
\* user has an instance too.
C5_Witness ==
    \E a, b \in Msgs :
        /\ a # b
        /\ msgs[a].author = msgs[b].author
        /\ msgs[a].pc = "proceed"
        /\ msgs[b].pc = "gate"
        /\ msgs[a].instance = msgs[b].instance
        /\ Len(instances) = 2

\* C6 (threshold rule): for an IDLE session and a non-empty intent list
\* whose first score is at or below the threshold, NotUnderstanding is
\* invoked, whatever the name of the first intent and whatever follows it.
C6_ThresholdRule ==
    \A m \in Msgs :
        LET t == msgs[m]
        IN  ( /\ HasRouted(t)
              /\ t.seen = <<>>
              /\ HasIntents(t)
              /\ Top(t).score <= nlu_threshold ) =>
                /\ t.route = "proceed"
                /\ t.dialog = NotUnderstanding_ID

\* C6 witness: NotUnderstanding.proceed is awaited for a first intent that
\* has a table entry and scores exactly the threshold, followed by an intent
\* that scores above it.
C6_Witness ==
    \E m \in Msgs :
        LET t == msgs[m]
        IN  /\ t.pc = "proceed"
            /\ t.seen = <<>>
            /\ HasIntents(t)
            /\ Top(t).score = nlu_threshold
            /\ Top(t).name \in DOMAIN intent_to_dialog
            /\ Len(t.intents.items) > 1
            /\ t.intents.items[2].score > nlu_threshold
            /\ t.dialog = NotUnderstanding_ID

\* C7 (tasks rule): for an IDLE session whose top intent is exactly
\* "QnA-Tasks" with a score above the threshold, the turn sends the help
\* message, invokes no dialog and leaves the pending stack empty.
C7_TasksRule ==
    \A m \in Msgs :
        LET t == msgs[m]
        IN  (IdleAndConfident(t) /\ Top(t).name = str_QnA_Tasks) =>
                /\ t.route = "help"
                /\ t.dialog = None
                /\ t.result = None
                /\ StackOf(t) = <<>>

\* C7 witness: such a turn is over, the help message sent.
C7_Witness ==
    \E m \in Msgs :
        LET t == msgs[m]
        IN  /\ t.pc = "done"
            /\ IdleAndConfident(t)
            /\ Top(t).name = str_QnA_Tasks
            /\ t.route = "help"
            /\ t.error = None

\* C8 (unknown dialog id): for an IDLE session whose confident top intent is
\* not the tasks intent, is not QnA-prefixed and has no entry in the
\* intent-to-dialog table, the turn sends the admin-escalation message,
\* invokes no dialog and leaves the pending stack unchanged.
C8_UnknownDialog ==
    \A m \in Msgs :
        LET t == msgs[m]
        IN  ( /\ IdleAndConfident(t)
              /\ Top(t).name # str_QnA_Tasks
              /\ ~startswith(Top(t).name, str_QnA)
              /\ Top(t).name \notin DOMAIN intent_to_dialog ) =>
                /\ t.route = "notfound"
                /\ t.dialog = None
                /\ t.result = None
                /\ StackOf(t) = t.seen

\* C8 witness: such a turn is over, the escalation message sent.
C8_Witness ==
    \E m \in Msgs :
        LET t == msgs[m]
        IN  /\ t.pc = "done"
            /\ IdleAndConfident(t)
            /\ Top(t).name = str_Weather
            /\ t.route = "notfound"
            /\ t.error = None

\* C9 (prefix rule): for an IDLE session whose confident top intent starts
\* with "QnA" and is not "QnA-Tasks", the QnA dialog is invoked, whatever the
\* intent-to-dialog table holds for the name.
C9_PrefixRule ==
    \A m \in Msgs :
        LET t == msgs[m]
        IN  ( /\ IdleAndConfident(t)
              /\ startswith(Top(t).name, str_QnA)
              /\ Top(t).name # str_QnA_Tasks ) =>
                /\ t.route = "proceed"
                /\ t.dialog = QnA_ID

\* C9 witness: QnA.proceed is awaited for an intent of the QnA namespace that
\* the table does not hold.
C9_Witness ==
    \E m \in Msgs :
        LET t == msgs[m]
        IN  /\ t.pc = "proceed"
            /\ IdleAndConfident(t)
            /\ Top(t).name = str_QnA_Faq
            /\ Top(t).name \notin DOMAIN intent_to_dialog
            /\ t.dialog = QnA_ID

\* C10 (no-intent rule): for an IDLE session, a turn whose classifier result
\* is an empty or a null intent list is a normal turn that invokes
\* NotUnderstanding: it does not end in an error of handle's own making, and
\* once routed it awaits NotUnderstanding.proceed.
C10_NoIntentRule ==
    \A m \in Msgs :
        LET t == msgs[m]
        IN  ( /\ InHandle(t)
              /\ t.error # "recognize"
              /\ t.before = <<>>
              /\ ~HasIntents(t) ) =>
                /\ t.error # "TypeError"
                /\ HasRouted(t) =>
                       (t.route = "proceed" /\ t.dialog = NotUnderstanding_ID)

\* C11 (the debug trace is a side channel): whatever config.is_debug() says,
\* a turn whose classifier answered and whose debug message, if any, was sent
\* goes on to line 81 and is routed as lines 81-102 route the stack and the
\* intents it met; it never ends inside _send_debug.
C11_DebugSideChannel ==
    \A m \in Msgs :
        LET t == msgs[m]
            r == Route(t.before, t.intents)
        IN  ( /\ InHandle(t)
              /\ t.pc = "done"
              /\ t.error # "recognize"
              /\ ~(t.route = "handle" /\ t.error = "send") ) =>
                /\ HasRouted(t)
                /\ t.route = r.kind
                /\ t.dialog = r.dialog

\* C12 (single slot): when the turns are processed one at a time, a pending
\* stack never holds more than one dialog id, and no step of a turn makes a
\* pending stack longer by more than one entry.
C12_AtMostOne ==
    \A i \in DOMAIN instances : Len(instances[i].active_dialog_stack) <= 1

C12_OnePush ==
    \A i \in DOMAIN instances :
        Len(instances'[i].active_dialog_stack)
            <= Len(instances[i].active_dialog_stack) + 1

C12_SingleSlot == []C12_AtMostOne /\ [][C12_OnePush]_vars

\* C12 witness: a turn that resumed a pending dialog is over, the dialog
\* asked for input again, and the stack holds that one dialog.
C12_Witness ==
    \E m \in Msgs :
        LET t == msgs[m]
        IN  /\ t.pc = "done"
            /\ t.seen # <<>>
            /\ t.result = WAIT_FOR_INPUT
            /\ StackOf(t) = <<t.dialog>>

\* A turn that met an empty pending stack, awaited dialog.proceed and is over.
InvokedFromIdle(t) ==
    /\ t.pc = "done"
    /\ t.route = "proceed"
    /\ t.before = <<>>
    /\ t.seen = <<>>

Suspended(t) ==
    t.pc \in {"delete", "notice", "debug", "help", "notfound", "proceed"}

\* Task t is inside the with block of __get_bot_instance (lines 330-335).
InWithBlock(t) == t.pc \in {"lookup", "create", "release"}

\* C14 (the manager lock is held only for the lookup-or-insert): the
\* user-to-instance lock is held exactly while some task is inside the with
\* block of __get_bot_instance, and by one task only; no suspended turn holds
\* it, so whenever a turn is suspended and no task is inside the with block
\* the lock is free.
C14_LockOnlyInWithBlock ==
    /\ user_to_instance_lock <=> (\E m \in Msgs : InWithBlock(msgs[m]))
    /\ \A a, b \in Msgs :
          (InWithBlock(msgs[a]) /\ InWithBlock(msgs[b])) => a = b
    /\ ( /\ \E m \in Msgs : Suspended(msgs[m])
         /\ \A m \in Msgs : ~InWithBlock(msgs[m]) ) => ~user_to_instance_lock

\* C14 witness: while one turn is suspended at dialog.proceed, the task of
\* another message is running __get_bot_instance and got the lock: the
\* suspended turn did not block it.
C14_Witness ==
    \E a, b \in Msgs :
        /\ msgs[a].pc = "proceed"
        /\ msgs[b].pc = "lookup"
        /\ user_to_instance_lock

\* Task m evaluates line 216 of on_message in this step.
AtGate(m) == msgs[m].pc = "gate" /\ msgs'[m].pc # "gate"

\* C15 (has_active_dialog): whenever has_active_dialog() is called (line 216),
\* it returns true iff the pending stack of its instance is non-empty, and the
\* call leaves every pending stack as it was.
C15_Call ==
    \A m \in Msgs :
        AtGate(m) =>
            /\ msgs'[m].active <=>
                   (instances[msgs[m].instance].active_dialog_stack # <<>>)
            /\ instances' = instances

C15_ActiveIffPending == [][C15_Call]_vars

\* C15 witness: a message that is neither direct nor a mention passed line
\* 216 because has_active_dialog() returned true for a stack holding a dialog.
C15_Witness ==
    \E m \in Msgs :
        LET t == msgs[m]
        IN  /\ t.pc = "delete"
            /\ t.active
            /\ ~t.direct /\ ~t.mention
            /\ StackOf(t) # <<>>

\* Task m takes a step of handle in this step: it was past the deletion of
\* its message with NLU enabled (lines 221-229), or awaiting dialog.proceed
\* (line 104).
HandleStep(m) ==
    /\ msgs'[m] # msgs[m]
    /\ \/ msgs[m].pc = "delete" /\ ~is_nlu_disabled /\ InHandle(msgs'[m])
       \/ msgs[m].pc = "debug"
       \/ msgs[m].pc = "proceed"

\* C16 (pending slots are isolated and do not expire): the pending stack of a
\* session changes only in a step of handle taken by a turn of the session's
\* own user; every other step (turns of other users, commands, dropped
\* messages, the NLU-disabled notice) leaves it as it is, and no step exists
\* that only lets time pass.
C16_OnlyOwnTurn ==
    \A i \in DOMAIN instances :
        instances'[i].active_dialog_stack # instances[i].active_dialog_stack =>
            \E m \in Msgs :
                /\ HandleStep(m)
                /\ msgs[m].author = instances[i].owner
                /\ msgs[m].instance = i

C16_Isolation == [][C16_OnlyOwnTurn]_vars

\* C16 witness: a session awaits a dialog while a turn of another user has
\* been through handle and is over.
C16_Witness ==
    \E i \in DOMAIN instances, m \in Msgs :
        /\ instances[i].active_dialog_stack # <<>>
        /\ msgs[m].author # instances[i].owner
        /\ msgs[m].pc = "done"
        /\ msgs[m].route = "proceed"
        /\ msgs[m].result = DONE

\* C17 (stored ids are valid): every id in a pending stack is the dialog_id of
\* a dialog of the registry; hence a turn that popped an entry finds its
\* dialog and awaits its proceed, and never takes the path of line 101.
C17_StoredIdsValid ==
    /\ \A i \in DOMAIN instances :
          \A k \in DOMAIN instances[i].active_dialog_stack :
              /\ instances[i].active_dialog_stack[k] \in DialogIds
              /\ \E d \in DOMAIN dialogs :
                    dialogs[d] = instances[i].active_dialog_stack[k]
    /\ \A m \in Msgs :
          LET t == msgs[m]
          IN  (HasRouted(t) /\ t.seen # <<>>) =>
                  /\ t.route = "proceed"
                  /\ t.dialog = Head(t.seen)

\* C17 witness: a turn popped a pending entry and awaits the proceed of the
\* dialog registered under it.
C17_Witness ==
    \E m \in Msgs :
        LET t == msgs[m]
        IN  /\ t.pc = "proceed"
            /\ t.seen # <<>>
            /\ Head(t.seen) \in DialogIds
            /\ t.dialog = Head(t.seen)

\* The gating condition for the message of task t, read in the current
\* state: direct, or in a configured channel and either a mention or sent
\* while the author's session awaits a dialog.
Wanted(t) ==
    \/ t.direct
    \/ t.listed /\ (t.mention \/ StackOf(t) # <<>>)

\* C18 (caller gating): a message of a non-bot author that no command handler
\* took passes line 218 iff it is direct, or its channel is configured and it
\* mentions the bot or its author's session has an active dialog; a message
\* that passed reaches BotInstance.handle iff NLU is enabled (unless its
\* deletion at line 221 raises), and no other message reaches handle.
C18_Step ==
    \A m \in Msgs :
        /\ AtGate(m) =>
              /\ msgs[m].kind = "text"
              /\ (msgs'[m].pc = "delete") <=> Wanted(msgs[m])
              /\ msgs'[m].pc # "delete" =>
                     (msgs'[m].pc = "done" /\ msgs'[m].route = "dropped")
        /\ (msgs[m].pc = "delete" /\ msgs'[m] # msgs[m]) =>
              IF is_nlu_disabled
              THEN ~InHandle(msgs'[m])
              ELSE InHandle(msgs'[m]) \/ msgs'[m].error = "delete"
        /\ (InHandle(msgs'[m]) /\ ~InHandle(msgs[m])) =>
              (msgs[m].pc = "delete" /\ ~is_nlu_disabled)
        /\ (msgs[m].pc = "idle" /\ msgs'[m].pc # "idle"
                /\ msgs'[m].kind # "text") => msgs'[m].pc = "done"

C18_CallerGating == [][C18_Step]_vars

\* C18 witness: with NLU enabled, a message without mention in a configured
\* channel passed the gate because its author's session awaits a dialog,
\* while such a message of an IDLE session was dropped.
C18_Witness ==
    \E m, n \in Msgs :
        /\ ~is_nlu_disabled
        /\ msgs[m].pc = "delete"
        /\ msgs[m].listed /\ ~msgs[m].mention /\ ~msgs[m].direct
        /\ StackOf(msgs[m]) # <<>>
        /\ msgs[n].route = "dropped"
        /\ msgs[n].listed /\ ~msgs[n].mention /\ ~msgs[n].direct

\* The command names in the order the claim gives: respond-all, listen,
\* keep, admin, echo, state, and the catch-all that matches every command.
C19_Order ==
    << str_respond_all, str_listen, str_keep, str_admin,
       str_echo, str_state, str_empty >>

\* The content begins with the system command symbol.
HasSymbol(content) == Len(content) > 0 /\ content[1] = "\\"

\* The content continues, after its first character, with the name.
NamedAfterSymbol(content, name) ==
    /\ Len(content) >= 1 + Len(name)
    /\ \A i \in 1..Len(name) : content[i + 1] = name[i]

\* C19 (system command dispatch): a handle_system call that returns returns
\* True iff the content starts with the symbol '\'; then exactly one
\* handling function was run, one of the first command in the order
\* respond-all, listen, keep, admin, echo, state, catch-all whose name follows
\* the symbol (the catch-all answers 'Unbekannter Befehl'); when it returns
\* False no handling function ran and nothing was deleted.  No call ever runs
\* more than one handling function.
C19_Dispatch ==
    /\ Len(sys.ran) <= 1
    /\ sys.returned # None =>
          /\ (sys.returned = "True") <=> HasSymbol(sys.content)
          /\ sys.returned = "True" =>
                /\ Len(sys.ran) = 1
                /\ \E k \in DOMAIN C19_Order :
                      /\ sys.ran[1].cmd = C19_Order[k]
                      /\ NamedAfterSymbol(sys.content, C19_Order[k])
                      /\ \A j \in 1..(k - 1) :
                            ~NamedAfterSymbol(sys.content, C19_Order[j])
                      /\ k = Len(C19_Order) =>
                            sys.says = "Unbekannter Befehl"
          /\ sys.returned = "False" =>
                (sys.ran = <<>> /\ ~sys.deleted /\ sys.says = "")

\* C19 witness: a call returned True for a command followed by an argument,
\* after running the handling function of that command and no other.
C19_Witness ==
    /\ sys.pc = "done"
    /\ sys.returned = "True"
    /\ sys.content = SYSTEM_COMMAND_SYMBOL \o str_keep \o <<" ","x">>
    /\ Len(sys.ran) = 1
    /\ sys.ran[1].cmd = str_keep

\* C20, the state part: outside direct channels the handling function run is
\* func or func_not_admin; func_not_admin of every named command only sends
\* 'Du bist nicht authorisiert!'; the message is deleted only after a
\* handling function ran, and is deleted whenever the call returns True.
C20_Handled ==
    /\ (sys.ran # <<>> /\ ~sys.direct) =>
          /\ sys.ran[1].which \in {"func", "func_not_admin"}
          /\ (sys.ran[1].which = "func_not_admin"
                  /\ sys.ran[1].cmd # str_empty) =>
                 sys.says = "Du bist nicht authorisiert!"
    /\ sys.deleted => (~sys.direct /\ Len(sys.ran) = 1)
    /\ (sys.returned = "True" /\ ~sys.direct) => sys.deleted

\* C20, the step part: outside direct channels func is run iff the author is
\* an admin in the configuration as it is when the command arrives, and a
\* step changes the configuration only by running func_dm in a direct
\* channel or func for an admin.
C20_Step ==
    /\ (sys.pc = "idle" /\ sys'.ran # <<>> /\ ~sys'.direct) =>
          /\ (sys'.ran[1].which = "func") <=> (sys'.author \in config.admins)
          /\ sys'.author \notin config.admins => config' = config
    /\ config' # config =>
          /\ sys.pc = "idle"
          /\ sys'.ran # <<>>
          /\ sys'.direct \/ sys'.author \in config.admins

====
